---- MODULE Spec2Model ----
(***************************************************************************)
(* Model of ryu/app/intent.py: shortest-path tree (dijkstra), intent       *)
(* compilation (_compile_rule), the intent registry (add_rule,             *)
(* update_rule, remove_rule), the reactive learning switch                 *)
(* (_packet_in_handler) and the switch-join reset (_switch_enter_handler). *)
(***************************************************************************)
EXTENDS Integers, Sequences, FiniteSets, TLC

VARIABLES
    topo,         \* snapshot returned by get_switch / get_link: [sws, links]
    rules,        \* self.rules: uuid -> intent (with its flow_mods)
    mac_to_port,  \* self.mac_to_port: dpid -> (mac -> port)
    tables,       \* switch-side flow tables derived from the sent messages
    out,          \* messages passed to datapath.send_msg by the last event
    err,          \* outcome of the last event: "ok", "InvalidTarget", "NotFound"
    last,         \* the last event and its arguments
    probe,        \* result of the last direct call of a pure function
    npkt,         \* number of packet-in events handled so far
    heard         \* history: per (dpid, source MAC), the port of the last frame
                  \* that reached the forwarding decision, and whether every
                  \* later frame of that source came in on that port

vars == <<topo, rules, mac_to_port, tables, out, err, last, probe, npkt, heard>>

----------------------------------------------------------------------------
(* Program constants *)

OFP_LW_PRIORITY == 100
OFP_RULE_PRIORITY == 200
COMPILE_PRIORITY == 200
OFPP_LOCAL == 65534
OFPP_FLOOD == 65531
OFP_DEFAULT_PRIORITY == 32768
ETH_TYPE_LLDP == 35020
ETH_TYPE_IPV6 == 34525
Inf == 1000000

(* Bounds *)

MaxLinks == 4
MaxPacketIn == 3
MaxJointPacketIn == 2

(* Wildcard value of a match field, the absent uuid, the absent predecessor *)
Wildcard == 0
None == "None"
NoPred == <<>>

(* Value domains *)
Switches == {1, 2, 3}
PortList == <<1, 2, OFPP_LOCAL>>
PortNos == {1, 2}
UUIDs == {"u1", "u2"}
MACs == {<<2, 10>>, <<4, 10>>, <<1, 10>>}
(* an IPv4 frame (0x0800), an LLDP frame, an IPv6 frame *)
EtherTypes == {2048, ETH_TYPE_LLDP, ETH_TYPE_IPV6}

----------------------------------------------------------------------------
(* Sequence helpers *)

Range(s) == {s[i] : i \in DOMAIN s}

RECURSIVE SeqRemoveFirst(_, _)
SeqRemoveFirst(s, x) ==
    IF s = <<>> THEN <<>>
    ELSE IF Head(s) = x THEN Tail(s)
    ELSE <<Head(s)>> \o SeqRemoveFirst(Tail(s), x)

----------------------------------------------------------------------------
(* dijkstra(vertices, edges, source)                                        *)

DijkstraInit(vertices, source) ==
    [dist |-> [v \in Range(vertices) |-> IF v = source THEN 0 ELSE Inf],
     prev |-> [v \in Range(vertices) |-> NoPred]]

(* the first unvisited vertex, whatever its distance *)
MinUnvisited_First(dist, unvisited) == Head(unvisited)

(* min(available, key=available.get): the first vertex, in the insertion   *)
(* order of dist (the order of vertices), with the least distance among    *)
(* the unvisited ones.                                                     *)
MinUnvisited(dist, unvisited) ==
    LET i == CHOOSE i \in DOMAIN unvisited :
                 /\ \A j \in DOMAIN unvisited : dist[unvisited[i]] <= dist[unvisited[j]]
                 /\ \A j \in 1..(i-1) : dist[unvisited[j]] > dist[unvisited[i]]
    IN unvisited[i]

Alt(dist, u) == IF dist[u] = Inf THEN Inf ELSE dist[u] + 1

(* the relaxation with "alt <= dist" in place of "alt < dist" *)
RECURSIVE Relax_NonStrict(_, _, _)
Relax_NonStrict(st, u, neighbors) ==
    IF neighbors = <<>> THEN st
    ELSE LET v   == Head(neighbors)
             alt == Alt(st.dist, u)
             nst == IF alt <= st.dist[v.dst]
                    THEN [dist |-> [st.dist EXCEPT ![v.dst] = alt],
                          prev |-> [st.prev EXCEPT ![v.dst] = <<u, v.port>>]]
                    ELSE st
         IN Relax_NonStrict(nst, u, Tail(neighbors))

RECURSIVE Relax(_, _, _)
Relax(st, u, neighbors) ==
    IF neighbors = <<>> THEN st
    ELSE LET v   == Head(neighbors)
             alt == Alt(st.dist, u)
             nst == IF alt < st.dist[v.dst]
                    THEN [dist |-> [st.dist EXCEPT ![v.dst] = alt],
                          prev |-> [st.prev EXCEPT ![v.dst] = <<u, v.port>>]]
                    ELSE st
         IN Relax(nst, u, Tail(neighbors))

RECURSIVE DijkstraLoop(_, _, _)
DijkstraLoop(st, unvisited, edges) ==
    IF unvisited = <<>> THEN st
    ELSE LET u == MinUnvisited(st.dist, unvisited)
             neighbors == SelectSeq(edges, LAMBDA x : x.src = u)
         IN DijkstraLoop(Relax(st, u, neighbors), SeqRemoveFirst(unvisited, u), edges)

(* raise ValueError when source is not in vertices, else (dist, prev) *)
dijkstra(vertices, edges, source) ==
    IF source \notin Range(vertices)
    THEN [err |-> "InvalidTarget", dist |-> <<>>, prev |-> <<>>]
    ELSE LET st == DijkstraLoop(DijkstraInit(vertices, source), vertices, edges)
         IN [err |-> "ok", dist |-> st.dist, prev |-> st.prev]

(* Intent._compute_spanning_tree(ttp_dpid) on the snapshot t *)
_compute_spanning_tree(t, ttp_dpid) == dijkstra(t.sws, t.links, ttp_dpid)

----------------------------------------------------------------------------
(* Intent._compile_rule(rule)                                               *)

OFPMatch(m, in_port) == [in_port |-> in_port, dl_dst |-> m.dl_dst]

FlowMod(dpid, match, port) ==
    [dpid |-> dpid, match |-> match, priority |-> COMPILE_PRIORITY, port |-> port]

(* _compile_rule without the "in_port == port" test *)
RECURSIVE CompilePorts_NoPortSkip(_, _, _, _)
CompilePorts_NoPortSkip(dpid, port, m, ports) ==
    IF ports = <<>> THEN <<>>
    ELSE LET in_port == Head(ports)
             rest == CompilePorts_NoPortSkip(dpid, port, m, Tail(ports))
         IN IF in_port = OFPP_LOCAL THEN rest
            ELSE <<FlowMod(dpid, OFPMatch(m, in_port), port)>> \o rest

RECURSIVE CompilePorts(_, _, _, _)
CompilePorts(dpid, port, m, ports) ==
    IF ports = <<>> THEN <<>>
    ELSE LET in_port == Head(ports)
             rest == CompilePorts(dpid, port, m, Tail(ports))
         IN IF in_port = port THEN rest
            ELSE IF in_port = OFPP_LOCAL THEN rest
            ELSE <<FlowMod(dpid, OFPMatch(m, in_port), port)>> \o rest

(* the datapath and the output port selected for one key of preds *)
PredDatapath(preds, pred, rule) ==
    IF preds[pred] = NoPred THEN rule.ttp_dpid ELSE pred

(* the output port taken from the intent for every key of preds *)
PredPort_TargetPort(preds, pred, rule) == rule.ttp_port

PredPort(preds, pred, rule) ==
    IF preds[pred] = NoPred THEN rule.ttp_port ELSE preds[pred][2]

RECURSIVE CompilePreds(_, _, _)
CompilePreds(preds, order, rule) ==
    IF order = <<>> THEN <<>>
    ELSE LET pred == Head(order)
         IN CompilePorts(PredDatapath(preds, pred, rule),
                         PredPort(preds, pred, rule), rule.match, PortList)
            \o CompilePreds(preds, Tail(order), rule)

(* _compile_rule: the rule with the compiled flow_mods appended, or the    *)
(* error of dijkstra with the rule untouched                               *)
_compile_rule(t, rule) ==
    LET spt == _compute_spanning_tree(t, rule.ttp_dpid)
    IN IF spt.err # "ok"
       THEN [err |-> spt.err, rule |-> rule]
       ELSE [err |-> "ok",
             rule |-> [rule EXCEPT !.flow_mods =
                          @ \o CompilePreds(spt.prev, t.sws, rule)]]

----------------------------------------------------------------------------
(* Messages handed to datapath.send_msg, and the switch-side tables they    *)
(* produce: OFPFC_ADD adds or replaces the entry with the same match and    *)
(* priority, OFPFC_DELETE_STRICT removes the entry with that match and      *)
(* priority, OFPFC_DELETE with the empty match removes every entry.         *)

MatchAll == [in_port |-> Wildcard, dl_dst |-> Wildcard]

AddMsg(dpid, match, priority, port) ==
    [cmd |-> "ADD", dpid |-> dpid, match |-> match, priority |-> priority,
     actions |-> <<port>>]

DeleteStrictMsg(dpid, match, priority) ==
    [cmd |-> "DELETE_STRICT", dpid |-> dpid, match |-> match,
     priority |-> priority, actions |-> <<>>]

DeleteMsg(dpid) ==
    [cmd |-> "DELETE", dpid |-> dpid, match |-> MatchAll,
     priority |-> OFP_DEFAULT_PRIORITY, actions |-> <<>>]

PacketOutMsg(dpid, in_port, port) ==
    [cmd |-> "PACKET_OUT", dpid |-> dpid,
     match |-> [in_port |-> in_port, dl_dst |-> Wildcard],
     priority |-> 0, actions |-> <<port>>]

Entry(msg) ==
    [dpid |-> msg.dpid, match |-> msg.match, priority |-> msg.priority,
     port |-> msg.actions[1]]

SameKey(e, msg) ==
    e.dpid = msg.dpid /\ e.match = msg.match /\ e.priority = msg.priority

send_msg(tbl, msg) ==
    CASE msg.cmd = "ADD" ->
            {e \in tbl : ~SameKey(e, msg)} \cup {Entry(msg)}
      [] msg.cmd = "DELETE_STRICT" ->
            {e \in tbl : ~SameKey(e, msg)}
      [] msg.cmd = "DELETE" ->
            {e \in tbl : e.dpid # msg.dpid}
      [] OTHER -> tbl

RECURSIVE SendAll(_, _)
SendAll(tbl, msgs) ==
    IF msgs = <<>> THEN tbl ELSE SendAll(send_msg(tbl, Head(msgs)), Tail(msgs))

----------------------------------------------------------------------------
(* Intent registry: add_rule, remove_rule, update_rule.  Each returns the   *)
(* registry, the messages sent and the outcome.                             *)

(* flow_mods: rule.flow_mods of the caller's intent object after the call *)
Result(rs, msgs, e, flow_mods) ==
    [rules |-> rs, out |-> msgs, err |-> e, flow_mods |-> flow_mods]

InstallMsgs(flow_mods) ==
    [i \in DOMAIN flow_mods |->
        AddMsg(flow_mods[i].dpid, flow_mods[i].match, flow_mods[i].priority,
               flow_mods[i].port)]

Store(rs, uuid, rule) ==
    [u \in (DOMAIN rs) \cup {uuid} |-> IF u = uuid THEN rule ELSE rs[u]]

Erase(rs, uuid) == [u \in (DOMAIN rs) \ {uuid} |-> rs[u]]

(* add_rule storing the intent although compilation failed *)
add_rule_StoreOnError(t, rs, rule) ==
    LET compiled == _compile_rule(t, rule)
    IN Result(Store(rs, rule.uuid, compiled.rule),
              InstallMsgs(compiled.rule.flow_mods), compiled.err,
              compiled.rule.flow_mods)

add_rule(t, rs, rule) ==
    LET compiled == _compile_rule(t, rule)
    IN IF compiled.err # "ok"
       THEN Result(rs, <<>>, compiled.err, compiled.rule.flow_mods)
       ELSE Result(Store(rs, rule.uuid, compiled.rule),
                   InstallMsgs(compiled.rule.flow_mods), "ok",
                   compiled.rule.flow_mods)

(* _remove_reverse_path deleting with the learning-switch priority *)
_remove_reverse_path_LwPriority(rs, uuid) ==
    [i \in DOMAIN rs[uuid].flow_mods |->
        DeleteStrictMsg(rs[uuid].flow_mods[i].dpid, rs[uuid].flow_mods[i].match,
                        OFP_LW_PRIORITY)]

(* the delete messages of _remove_reverse_path(uuid) *)
_remove_reverse_path(rs, uuid) ==
    [i \in DOMAIN rs[uuid].flow_mods |->
        DeleteStrictMsg(rs[uuid].flow_mods[i].dpid, rs[uuid].flow_mods[i].match,
                        OFP_RULE_PRIORITY)]

RemoveOne(rs, uuid) ==
    IF uuid \notin DOMAIN rs
    THEN Result(rs, <<>>, "NotFound", <<>>)
    ELSE Result(Erase(rs, uuid), _remove_reverse_path(rs, uuid), "ok", <<>>)

RECURSIVE RemoveEach(_, _)
RemoveEach(rs, order) ==
    IF order = <<>> THEN Result(rs, <<>>, "ok", <<>>)
    ELSE LET one == RemoveOne(rs, Head(order))
             rest == RemoveEach(one.rules, Tail(order))
         IN Result(rest.rules, one.out \o rest.out, rest.err, <<>>)

(* enumeration orders of list(self.rules) *)
KeyOrders(rs) ==
    {o \in [1..Cardinality(DOMAIN rs) -> DOMAIN rs] : Range(o) = DOMAIN rs}

(* remove_rule whose remove-all loop stops after the first stored intent *)
remove_rule_FirstOnly(rs, uuid, order) ==
    IF uuid # None THEN RemoveOne(rs, uuid)
    ELSE IF order = <<>> THEN Result(rs, <<>>, "ok", <<>>)
    ELSE RemoveOne(rs, Head(order))

remove_rule(rs, uuid, order) ==
    IF uuid # None THEN RemoveOne(rs, uuid) ELSE RemoveEach(rs, order)

(* update_rule going on to add_rule after remove_rule failed *)
update_rule_IgnoreNotFound(t, rs, uuid, rule) ==
    LET removed == remove_rule(rs, uuid, <<>>)
        added == add_rule(t, removed.rules, rule)
    IN Result(added.rules, removed.out \o added.out, added.err, added.flow_mods)

(* update_rule calling add_rule before remove_rule *)
update_rule_AddFirst(t, rs, uuid, rule) ==
    LET added == add_rule(t, rs, rule)
    IN IF added.err # "ok" THEN added
       ELSE LET removed == remove_rule(added.rules, uuid, <<>>)
            IN Result(removed.rules, added.out \o removed.out, removed.err,
                      added.flow_mods)

(* update_rule that leaves everything in place when the new rule does not *)
(* compile                                                               *)
update_rule_Atomic(t, rs, uuid, rule) ==
    LET removed == remove_rule(rs, uuid, <<>>)
        added == add_rule(t, removed.rules, rule)
    IN IF removed.err # "ok" THEN removed
       ELSE IF added.err # "ok" THEN Result(rs, <<>>, added.err, <<>>)
       ELSE Result(added.rules, removed.out \o added.out, added.err, added.flow_mods)

update_rule(t, rs, uuid, rule) ==
    LET removed == remove_rule(rs, uuid, <<>>)
    IN IF removed.err # "ok"
       THEN Result(removed.rules, removed.out, removed.err, rule.flow_mods)
       ELSE LET added == add_rule(t, removed.rules, rule)
            IN Result(added.rules, removed.out \o added.out, added.err,
                      added.flow_mods)

----------------------------------------------------------------------------
(* Learning switch: _add_flow and _packet_in_handler                        *)

_add_flow(dpid, in_port, dst, port) ==
    AddMsg(dpid, [in_port |-> in_port, dl_dst |-> dst], OFP_LW_PRIORITY, port)

(* int(dst.split(':')[0], 16) & 1 *)
FirstOctet(mac) == mac[1]
IsMulticast(mac) == FirstOctet(mac) % 2 = 1

(* self.mac_to_port.setdefault(dpid, {}); self.mac_to_port[dpid][src] = in_port *)
Learn(m2p, dpid, src, in_port) ==
    LET old == IF dpid \in DOMAIN m2p THEN m2p[dpid] ELSE <<>>
        new == [m \in (DOMAIN old) \cup {src} |-> IF m = src THEN in_port ELSE old[m]]
    IN [d \in (DOMAIN m2p) \cup {dpid} |-> IF d = dpid THEN new ELSE m2p[d]]

(* the lookup of dst always missing *)
OutPort_AlwaysFlood(m2p, dpid, dst) == OFPP_FLOOD

OutPort(m2p, dpid, dst) ==
    IF dst \in DOMAIN m2p[dpid] THEN m2p[dpid][dst] ELSE OFPP_FLOOD

(* lines 226-258: learn the source, resolve the output port, install a     *)
(* flow unless flooding, send the packet out                               *)
LearnAndForward(m2p, pkt) ==
    LET learned  == Learn(m2p, pkt.dpid, pkt.src, pkt.in_port)
        out_port == OutPort(learned, pkt.dpid, pkt.dst)
        flow     == IF out_port # OFPP_FLOOD
                    THEN <<_add_flow(pkt.dpid, pkt.in_port, pkt.dst, out_port)>>
                    ELSE <<>>
    IN [mac_to_port |-> learned,
        out |-> flow \o <<PacketOutMsg(pkt.dpid, pkt.in_port, out_port)>>]

(* _packet_in_handler without the multicast-destination test *)
_packet_in_handler_NoMulticastTest(m2p, pkt) ==
    IF pkt.ethertype = ETH_TYPE_LLDP THEN [mac_to_port |-> m2p, out |-> <<>>]
    ELSE IF pkt.ethertype = ETH_TYPE_IPV6 THEN [mac_to_port |-> m2p, out |-> <<>>]
    ELSE LearnAndForward(m2p, pkt)

_packet_in_handler(m2p, pkt) ==
    IF pkt.ethertype = ETH_TYPE_LLDP THEN [mac_to_port |-> m2p, out |-> <<>>]
    ELSE IF pkt.ethertype = ETH_TYPE_IPV6 THEN [mac_to_port |-> m2p, out |-> <<>>]
    ELSE IF IsMulticast(pkt.dst) THEN [mac_to_port |-> m2p, out |-> <<>>]
    ELSE LearnAndForward(m2p, pkt)

(* _switch_enter_handler resetting every switch of the system *)
_switch_enter_handler_AllSwitches(dpid) ==
    <<DeleteMsg(dpid)>> \o <<DeleteMsg(3 - dpid)>>

(* _switch_enter_handler *)
_switch_enter_handler(dpid) == <<DeleteMsg(dpid)>>

----------------------------------------------------------------------------
(* Inputs *)

Link(src, dst, port) == [src |-> src, dst |-> dst, port |-> port]

Snapshot(sws, links) == [sws |-> sws, links |-> links]

(* snapshots of the running system: two linked switches, the same two      *)
(* switches with the links down, and switch 1 alone                        *)
SysSwitches == {1, 2}
SysSnapshots ==
    { Snapshot(<<1, 2>>, <<Link(1, 2, 1), Link(2, 1, 1)>>),
      Snapshot(<<1, 2>>, <<>>),
      Snapshot(<<1>>, <<>>) }

NoRule == [uuid |-> None, match |-> [dl_dst |-> Wildcard], ttp_dpid |-> 0,
           ttp_port |-> 0, flow_mods |-> <<>>]
NoPkt == [dpid |-> 0, in_port |-> 0, src |-> <<>>, dst |-> <<>>, ethertype |-> 0]

IntentDsts == {<<2, 10>>}

(* a freshly created intent: flow_mods empty *)
NewIntents(targets) ==
    [uuid : UUIDs, match : [dl_dst : IntentDsts], ttp_dpid : targets,
     ttp_port : PortNos, flow_mods : {<<>>}]

Packets(dpids) ==
    [dpid : dpids, in_port : PortNos, src : MACs, dst : MACs,
     ethertype : EtherTypes]

(* the event handled last: the operation, its arguments, and flow_mods of  *)
(* the intent object passed to add or update as the call left it           *)
Event(op, uuid, rule, flow_mods, pkt, dpid) ==
    [op |-> op, uuid |-> uuid, rule |-> rule, flow_mods |-> flow_mods,
     pkt |-> pkt, dpid |-> dpid]

(* history of the frames received, per (dpid, source MAC) *)
Heard(h, pkt) ==
    LET k == <<pkt.dpid, pkt.src>>
        decided == /\ pkt.ethertype # ETH_TYPE_LLDP
                   /\ pkt.ethertype # ETH_TYPE_IPV6
                   /\ pkt.dst[1] % 2 = 0
        new == IF decided THEN [port |-> pkt.in_port, same |-> TRUE]
               ELSE [port |-> h[k].port, same |-> h[k].same /\ h[k].port = pkt.in_port]
    IN IF ~decided /\ k \notin DOMAIN h THEN h
       ELSE [x \in (DOMAIN h) \cup {k} |-> IF x = k THEN new ELSE h[x]]

Probe(kind, rule, e, dist, prev, flow_mods) ==
    [kind |-> kind, rule |-> rule, err |-> e, dist |-> dist, prev |-> prev,
     flow_mods |-> flow_mods]

NoProbe == Probe("none", NoRule, "ok", <<>>, <<>>, <<>>)

(* Snapshots for the direct calls of dijkstra and _compile_rule: every      *)
(* enumeration order of every non-empty set of switches, with at most       *)
(* MaxLinks links between them, listed in ascending or descending order.    *)
VertexOrders ==
    UNION {{o \in [1..n -> Switches] : \A i, j \in 1..n : i # j => o[i] # o[j]}
           : n \in 1..Cardinality(Switches)}

CandidateLinks(V) ==
    {l \in [src : V, dst : V, port : PortNos] : l.src # l.dst}

LinkKey(l) == l.src * 100 + l.dst * 10 + l.port

RECURSIVE SortLinks(_, _)
SortLinks(S, up) ==
    IF S = {} THEN <<>>
    ELSE LET l == CHOOSE x \in S :
                     \A y \in S : IF up THEN LinkKey(x) <= LinkKey(y)
                                         ELSE LinkKey(x) >= LinkKey(y)
         IN <<l>> \o SortLinks(S \ {l}, up)

AllSnapshots ==
    {Snapshot(o, SortLinks(L, up)) :
        o \in VertexOrders,
        L \in {X \in SUBSET CandidateLinks(Switches) : Cardinality(X) <= MaxLinks},
        up \in BOOLEAN}

----------------------------------------------------------------------------
(* State machine *)

Init ==
    /\ topo \in SysSnapshots
    /\ rules = <<>>
    /\ mac_to_port = <<>>
    /\ tables = {}
    /\ out = <<>>
    /\ err = "ok"
    /\ last = Event("init", None, NoRule, <<>>, NoPkt, 0)
    /\ probe = NoProbe
    /\ npkt = 0
    /\ heard = <<>>

Registry(r, ev) ==
    /\ rules' = r.rules
    /\ out' = r.out
    /\ err' = r.err
    /\ tables' = SendAll(tables, r.out)
    /\ last' = ev
    /\ UNCHANGED <<topo, mac_to_port, probe, npkt, heard>>

AddRule(rule) ==
    \E r \in {add_rule(topo, rules, rule)} :
        Registry(r, Event("add", rule.uuid, rule, r.flow_mods, NoPkt, 0))

RemoveRule(uuid) ==
    \E order \in KeyOrders(rules) :
        Registry(remove_rule(rules, uuid, order),
                 Event("remove", uuid, NoRule, <<>>, NoPkt, 0))

UpdateRule(uuid, rule) ==
    \E r \in {update_rule(topo, rules, uuid, rule)} :
        Registry(r, Event("update", uuid, rule, r.flow_mods, NoPkt, 0))

PacketIn(pkt) ==
    /\ npkt < MaxPacketIn
    /\ LET r == _packet_in_handler(mac_to_port, pkt)
       IN /\ mac_to_port' = r.mac_to_port
          /\ out' = r.out
          /\ tables' = SendAll(tables, r.out)
    /\ err' = "ok"
    /\ last' = Event("packet_in", None, NoRule, <<>>, pkt, pkt.dpid)
    /\ npkt' = npkt + 1
    /\ heard' = Heard(heard, pkt)
    /\ UNCHANGED <<topo, rules, probe>>

SwitchEnter(dpid) ==
    /\ out' = _switch_enter_handler(dpid)
    /\ tables' = SendAll(tables, out')
    /\ err' = "ok"
    /\ last' = Event("switch_enter", None, NoRule, <<>>, NoPkt, dpid)
    /\ UNCHANGED <<topo, rules, mac_to_port, probe, npkt, heard>>

(* the topology collaborator reports another snapshot *)
TopologyChange ==
    /\ topo' \in SysSnapshots \ {topo}
    /\ out' = <<>>
    /\ err' = "ok"
    /\ last' = Event("topology", None, NoRule, <<>>, NoPkt, 0)
    /\ UNCHANGED <<rules, mac_to_port, tables, probe, npkt, heard>>

NextIntent ==
    \/ \E rule \in NewIntents(SysSwitches) : AddRule(rule)
    \/ \E uuid \in UUIDs \cup {None} : RemoveRule(uuid)
    \/ \E uuid \in UUIDs, rule \in NewIntents(SysSwitches) : UpdateRule(uuid, rule)
    \/ \E dpid \in SysSwitches : SwitchEnter(dpid)
    \/ TopologyChange

(* direct calls of _compute_spanning_tree and _compile_rule *)
ComputeSpanningTree(ttp_dpid) ==
    /\ LET spt == _compute_spanning_tree(topo, ttp_dpid)
       IN probe' = Probe("spt", [NoRule EXCEPT !.ttp_dpid = ttp_dpid], spt.err,
                         spt.dist, spt.prev, <<>>)
    /\ UNCHANGED <<topo, rules, mac_to_port, tables, out, err, last, npkt, heard>>

CompileRule(rule) ==
    /\ LET c == _compile_rule(topo, rule)
       IN probe' = Probe("compile", rule, c.err, <<>>, <<>>, c.rule.flow_mods)
    /\ UNCHANGED <<topo, rules, mac_to_port, tables, out, err, last, npkt, heard>>

InitCompile ==
    /\ topo \in {t \in AllSnapshots :
                    \A i \in DOMAIN t.links :
                        {t.links[i].src, t.links[i].dst} \subseteq Range(t.sws)}
    /\ rules = <<>>
    /\ mac_to_port = <<>>
    /\ tables = {}
    /\ out = <<>>
    /\ err = "ok"
    /\ last = Event("init", None, NoRule, <<>>, NoPkt, 0)
    /\ probe = NoProbe
    /\ npkt = 0
    /\ heard = <<>>

NextCompile ==
    \/ \E ttp_dpid \in Switches : ComputeSpanningTree(ttp_dpid)
    \/ \E rule \in {r \in NewIntents(Switches) : r.uuid = "u1"} : CompileRule(rule)

SpecCompile == InitCompile /\ [][NextCompile]_vars

SpecIntent == Init /\ [][NextIntent]_vars

NextLearn ==
    \/ \E pkt \in Packets(SysSwitches) : PacketIn(pkt)
    \/ \E dpid \in SysSwitches : SwitchEnter(dpid)

SpecLearn == Init /\ [][NextLearn]_vars

(* The registry and the learning switch together: intents of one uuid,     *)
(* IPv4 frames between the unicast addresses on switch 1, and at most      *)
(* MaxJointPacketIn packet-in events.                                      *)
JointIntents == {r \in NewIntents(SysSwitches) : r.uuid = "u1"}

JointPackets ==
    {p \in Packets({1}) :
        ~IsMulticast(p.src) /\ ~IsMulticast(p.dst) /\ p.ethertype = 2048}

NextJoint ==
    \/ \E rule \in JointIntents : AddRule(rule)
    \/ \E uuid \in {"u1", None} : RemoveRule(uuid)
    \/ \E rule \in JointIntents : UpdateRule("u1", rule)
    \/ \E pkt \in JointPackets : npkt < MaxJointPacketIn /\ PacketIn(pkt)
    \/ \E dpid \in SysSwitches : SwitchEnter(dpid)

SpecJoint == Init /\ [][NextJoint]_vars

----------------------------------------------------------------------------
(* Properties                                                               *)

(* the switches reachable from target along the links of snapshot t *)
RECURSIVE ReachFrom(_, _)
ReachFrom(t, S) ==
    LET N == S \cup {t.links[i].dst : i \in {j \in DOMAIN t.links : t.links[j].src \in S}}
    IN IF N = S THEN S ELSE ReachFrom(t, N)

Count(seq, P(_)) == Cardinality({i \in DOMAIN seq : P(seq[i])})

(* the positions <<uuid, index>> of every flow_mod stored in the registry *)
StoredFlowMods(rs) == UNION {{u} \X DOMAIN rs[u].flow_mods : u \in DOMAIN rs}

Cmds(msgs) == {msgs[i].cmd : i \in DOMAIN msgs}

IsAddStep == last'.op = "add"
IsUpdateStep == last'.op = "update"
IsRemoveStep == last'.op = "remove"

(* C1: add(intent) with a uuid not yet stored, immediately followed by     *)
(* remove(intent.uuid), leaves every switch's table as it was before the   *)
(* add, whatever the other stored intents are.                             *)
C1_AddThenRemoveRestoresTables ==
    [][(IsAddStep /\ err' = "ok" /\ last'.uuid \notin DOMAIN rules)
        => SendAll(tables', remove_rule(rules', last'.uuid, <<>>).out) = tables]_vars

(* C2: compilation emits no rule on a switch unreachable from the target,  *)
(* and the target switch gets exactly one rule per ingress port other than *)
(* the target port and the controller port, however many switches are      *)
(* unreachable.                                                            *)
C2_UnreachableContributesNothing ==
    (probe.kind = "compile" /\ probe.err = "ok") =>
        LET r == probe.rule
            reach == ReachFrom(topo, {r.ttp_dpid})
        IN /\ \A i \in DOMAIN probe.flow_mods : probe.flow_mods[i].dpid \in reach
           /\ \A p \in PortNos \ {r.ttp_port} :
                 Count(probe.flow_mods,
                       LAMBDA fm : fm.dpid = r.ttp_dpid /\ fm.match.in_port = p) = 1

(* C3: no compiled rule outputs to the ingress port of its own match, and  *)
(* no compiled rule has the controller port 65534 as ingress port.         *)
C3_NoHairpinNoControllerPort ==
    probe.kind = "compile" =>
        \A i \in DOMAIN probe.flow_mods :
            /\ probe.flow_mods[i].port # probe.flow_mods[i].match.in_port
            /\ probe.flow_mods[i].match.in_port # 65534

C3_Witness ==
    /\ probe.kind = "compile"
    /\ \E i, j \in DOMAIN probe.flow_mods :
          /\ probe.flow_mods[i].dpid = probe.rule.ttp_dpid
          /\ probe.flow_mods[j].dpid # probe.rule.ttp_dpid
          /\ probe.flow_mods[j].port \in PortNos
          /\ probe.flow_mods[i].port \in PortNos

(* C4: add with a target that is not a switch of the snapshot fails with   *)
(* InvalidTarget, sends nothing, leaves the intent's flow_mods empty and   *)
(* the registry and the tables as they were.                               *)
C4_InvalidTargetNoEffect ==
    [][(IsAddStep /\ last'.rule.ttp_dpid \notin Range(topo.sws))
        => /\ err' = "InvalidTarget"
           /\ out' = <<>>
           /\ last'.flow_mods = <<>>
           /\ rules' = rules
           /\ tables' = tables]_vars

C4_Witness ==
    /\ last.op = "add"
    /\ err = "InvalidTarget"
    /\ last.rule.ttp_dpid \notin Range(topo.sws)
    /\ DOMAIN rules # {}
    /\ last.uuid \notin DOMAIN rules

(* C5: remove(uuid) and update(uuid, newIntent) with a uuid that is not    *)
(* stored fail with NotFound, send nothing, leave the registry and the     *)
(* tables as they were, and update neither compiles nor stores newIntent.  *)
C5_UnknownUuidNoEffect ==
    [][((IsRemoveStep \/ IsUpdateStep) /\ last'.uuid # None
            /\ last'.uuid \notin DOMAIN rules)
        => /\ err' = "NotFound"
           /\ out' = <<>>
           /\ rules' = rules
           /\ tables' = tables
           /\ last'.flow_mods = <<>>]_vars

C5_Witness ==
    /\ last.op = "update"
    /\ err = "NotFound"
    /\ last.rule.ttp_dpid \in Range(topo.sws)
    /\ last.rule.uuid = last.uuid
    /\ DOMAIN rules # {}
    /\ tables # {}

(* C6: update(uuid, intentB) sends the messages of remove(uuid) followed   *)
(* by those of add(intentB) and ends in the same registry: one strict      *)
(* delete per flow_mod of the stored intent, then one install per flow_mod *)
(* compiled for intentB.                                                   *)
C6_UpdateIsRemoveThenAdd ==
    [][IsUpdateStep =>
        LET removed == remove_rule(rules, last'.uuid, <<>>)
            added == add_rule(topo, removed.rules, last'.rule)
        IN IF removed.err # "ok"
           THEN out' = removed.out /\ rules' = removed.rules /\ err' = removed.err
           ELSE /\ out' = removed.out \o added.out
                /\ rules' = added.rules
                /\ err' = added.err
                /\ Len(out') = Len(rules[last'.uuid].flow_mods) + Len(added.out)
                /\ \A i \in DOMAIN out' :
                      IF i <= Len(rules[last'.uuid].flow_mods)
                      THEN /\ out'[i].cmd = "DELETE_STRICT"
                           /\ out'[i].dpid = rules[last'.uuid].flow_mods[i].dpid
                           /\ out'[i].match = rules[last'.uuid].flow_mods[i].match
                      ELSE /\ out'[i].cmd = "ADD"
                           /\ err' = "ok"
                           /\ Entry(out'[i]) =
                                rules'[last'.rule.uuid].flow_mods[i - Len(rules[last'.uuid].flow_mods)]]_vars

C6_Witness ==
    /\ last.op = "update"
    /\ err = "ok"
    /\ last.uuid = last.rule.uuid
    /\ Cmds(out) = {"DELETE_STRICT", "ADD"}
    /\ DOMAIN rules = UUIDs

(* C7: remove with no uuid empties the registry and sends exactly one      *)
(* strict delete per flow_mod of every intent stored before, nothing else; *)
(* the tables end as after removing the stored intents one by one.         *)
C7_RemoveAll ==
    [][(IsRemoveStep /\ last'.uuid = None)
        => /\ rules' = <<>>
           /\ err' = "ok"
           /\ Cmds(out') \subseteq {"DELETE_STRICT"}
           /\ Len(out') = Cardinality(StoredFlowMods(rules))
           /\ \A x \in StoredFlowMods(rules) :
                 LET fm == rules[x[1]].flow_mods[x[2]]
                 IN Count(out', LAMBDA m : m.dpid = fm.dpid /\ m.match = fm.match)
                    = Cardinality({y \in StoredFlowMods(rules) :
                          /\ rules[y[1]].flow_mods[y[2]].dpid = fm.dpid
                          /\ rules[y[1]].flow_mods[y[2]].match = fm.match})
           /\ \A order \in KeyOrders(rules) :
                 tables' = SendAll(tables, RemoveEach(rules, order).out)]_vars

C7_Witness ==
    /\ last.op = "remove"
    /\ last.uuid = None
    /\ rules = <<>>
    /\ Len(out) >= 3

IsPacketInStep == last'.op = "packet_in"

(* the source MAC a was last heard on switch s at port q by a frame that    *)
(* reached the forwarding decision, and no frame of source a has come in   *)
(* on another port of s since (the frame of the current step included)     *)
HeardAt(h, s, a, q) ==
    /\ <<s, a>> \in DOMAIN h
    /\ h[<<s, a>>].port = q
    /\ h[<<s, a>>].same

ForwardedTo(msgs, s, p, a, q) ==
    msgs = <<AddMsg(s, [in_port |-> p, dl_dst |-> a], 100, q),
             PacketOutMsg(s, p, q)>>

(* C8 as stated: once a unicast, non-LLDP, non-IPv6 frame of source A was  *)
(* handled on S at port q and no later frame of source A came in on        *)
(* another port, any later unicast frame to A on S at a port p # q         *)
(* triggers exactly one install (in_port p, dl_dst A, output q, priority   *)
(* 100) and one packet-out to q.                                           *)
C8_AnyUnicastFrameForwarded ==
    [][(IsPacketInStep /\ last'.pkt.dst[1] % 2 = 0)
        => \A q \in PortNos \ {last'.pkt.in_port} :
              HeardAt(heard', last'.pkt.dpid, last'.pkt.dst, q)
              => ForwardedTo(out', last'.pkt.dpid, last'.pkt.in_port,
                             last'.pkt.dst, q)]_vars

(* C8 amended: the same for a later unicast frame to A that is itself      *)
(* neither LLDP nor IPv6.                                                  *)
C8_DecidedUnicastFrameForwarded ==
    [][(IsPacketInStep /\ last'.pkt.dst[1] % 2 = 0
            /\ last'.pkt.ethertype \notin {35020, 34525})
        => \A q \in PortNos \ {last'.pkt.in_port} :
              HeardAt(heard', last'.pkt.dpid, last'.pkt.dst, q)
              => ForwardedTo(out', last'.pkt.dpid, last'.pkt.in_port,
                             last'.pkt.dst, q)]_vars

C8_Witness ==
    /\ last.op = "packet_in"
    /\ npkt >= 3
    /\ \E q \in PortNos \ {last.pkt.in_port} :
          /\ HeardAt(heard, last.pkt.dpid, last.pkt.dst, q)
          /\ ForwardedTo(out, last.pkt.dpid, last.pkt.in_port, last.pkt.dst, q)
    /\ \E s \in SysSwitches \ {last.pkt.dpid} :
          HeardAt(heard, s, last.pkt.dst, last.pkt.in_port)

(* C9: a packet-in with ethertype LLDP or IPv6, or with a multicast or     *)
(* broadcast destination, sends no install message.                        *)
C9_DroppedFrameInstallsNothing ==
    (/\ last.op = "packet_in"
     /\ \/ last.pkt.ethertype \in {35020, 34525}
        \/ last.pkt.dst[1] % 2 = 1)
    => "ADD" \notin Cmds(out)

C9_Witness ==
    /\ last.op = "packet_in"
    /\ last.pkt.ethertype = 2048
    /\ last.pkt.dst[1] % 2 = 1
    /\ last.pkt.dpid \in DOMAIN mac_to_port
    /\ last.pkt.dst \in DOMAIN mac_to_port[last.pkt.dpid]
    /\ mac_to_port[last.pkt.dpid][last.pkt.dst] # last.pkt.in_port

(* C10: after any packet-in on switch S with source M at port p,           *)
(* mac_to_port[S][M] = p, also for frames that are LLDP, IPv6 or have a    *)
(* multicast destination.                                                  *)
C10_LearningUnconditional ==
    last.op = "packet_in"
    => /\ last.pkt.dpid \in DOMAIN mac_to_port
       /\ last.pkt.src \in DOMAIN mac_to_port[last.pkt.dpid]
       /\ mac_to_port[last.pkt.dpid][last.pkt.src] = last.pkt.in_port

(* C11: every packet-in whose ethertype is neither LLDP nor IPv6 gets      *)
(* exactly one packet-out carrying the resolved action, installed entry or *)
(* not; a frame with a multicast or broadcast destination gets one         *)
(* packet-out with the flood action and no install.                        *)
C11_AlwaysOnePacketOut ==
    (last.op = "packet_in" /\ last.pkt.ethertype \notin {35020, 34525})
    => /\ Count(out, LAMBDA m : m.cmd = "PACKET_OUT") = 1
       /\ \A i \in DOMAIN out :
             out[i].cmd = "ADD" => \E j \in DOMAIN out :
                 out[j].cmd = "PACKET_OUT" /\ out[j].actions = out[i].actions
       /\ last.pkt.dst[1] % 2 = 1
             => out = <<PacketOutMsg(last.pkt.dpid, last.pkt.in_port, 65531)>>

IsSwitchEnterStep == last'.op = "switch_enter"

(* C12: a switch-join notification for S sends exactly one message, the    *)
(* match-everything delete addressed to S; the registry, the flow_mods of  *)
(* every stored intent and the MAC tables of all switches stay as they     *)
(* were, and no other switch's table changes.                              *)
C12_SwitchJoinOnlyResets ==
    [][IsSwitchEnterStep
        => /\ Len(out') = 1
           /\ out'[1].cmd = "DELETE"
           /\ out'[1].dpid = last'.dpid
           /\ out'[1].match = [in_port |-> 0, dl_dst |-> 0]
           /\ rules' = rules
           /\ mac_to_port' = mac_to_port
           /\ heard' = heard
           /\ topo' = topo
           /\ tables' = {e \in tables : e.dpid # last'.dpid}]_vars

C12_Witness ==
    /\ last.op = "switch_enter"
    /\ last.dpid = 1
    /\ \E u \in DOMAIN rules : \E i, j \in DOMAIN rules[u].flow_mods :
          rules[u].flow_mods[i].dpid = 1 /\ rules[u].flow_mods[j].dpid = 2
    /\ 1 \in DOMAIN mac_to_port
    /\ Cardinality(DOMAIN mac_to_port[1]) = 2
    /\ \E e \in tables : e.dpid = 2

(* C14: every strict delete sent by remove, remove-all or the remove step  *)
(* of update has the switch, the match (ingress port included) and the     *)
(* priority of an installed flow_mod of the intent removed; intent rules   *)
(* are installed with priority 200, learning-switch rules with 100, and    *)
(* the deletes leave every learning-switch entry in place.                 *)
C14_DeleteMatchesInstall ==
    [][/\ (IsRemoveStep \/ IsUpdateStep)
          => /\ \A i \in DOMAIN out' : out'[i].cmd = "DELETE_STRICT"
                  => \E x \in StoredFlowMods(rules) :
                        LET fm == rules[x[1]].flow_mods[x[2]]
                        IN /\ last'.uuid = None \/ x[1] = last'.uuid
                           /\ out'[i].dpid = fm.dpid
                           /\ out'[i].match = fm.match
                           /\ out'[i].priority = fm.priority
             /\ {e \in tables' : e.priority = 100} = {e \in tables : e.priority = 100}
       /\ (IsAddStep \/ IsUpdateStep)
          => \A i \in DOMAIN out' : out'[i].cmd = "ADD" => out'[i].priority = 200
       /\ IsPacketInStep
          => \A i \in DOMAIN out' : out'[i].cmd = "ADD" => out'[i].priority = 100]_vars

C14_Witness ==
    /\ last.op = "remove"
    /\ err = "ok"
    /\ \E i \in DOMAIN out : \E e \in tables :
          /\ e.priority = 100
          /\ e.dpid = out[i].dpid
          /\ e.match = out[i].match

(* the switches within n links of the set S, following the links forwards *)
RECURSIVE Within(_, _, _)
Within(t, S, n) ==
    IF n = 0 THEN S
    ELSE Within(t, S \cup {t.links[i].dst :
                              i \in {j \in DOMAIN t.links : t.links[j].src \in S}},
                n - 1)

(* the least number of links on a directed path from s to v, Inf if none *)
HopDist(t, s, v) ==
    IF v \notin ReachFrom(t, {s}) THEN Inf
    ELSE CHOOSE n \in 0..Len(t.sws) :
             /\ v \in Within(t, {s}, n)
             /\ \A m \in 0..(n - 1) : v \notin Within(t, {s}, m)

IsSptResult == probe.kind = "spt" /\ probe.err = "ok"

(* C13: with the target in the snapshot, dijkstra returns a distance for   *)
(* every switch: 0 for the target, the least number of links on a directed *)
(* path from the target for a reachable switch, the sentinel for the       *)
(* others; a switch v with predecessor (u, port) has distance[u] + 1 and   *)
(* the snapshot has a link u -> v carrying that port.                      *)
C13_BreadthFirstResult ==
    IsSptResult =>
        /\ DOMAIN probe.dist = Range(topo.sws)
        /\ DOMAIN probe.prev = Range(topo.sws)
        /\ probe.dist[probe.rule.ttp_dpid] = 0
        /\ \A v \in Range(topo.sws) :
              /\ probe.dist[v] = HopDist(topo, probe.rule.ttp_dpid, v)
              /\ probe.prev[v] # NoPred
                    => /\ probe.prev[v][1] \in Range(topo.sws)
                       /\ probe.dist[v] = probe.dist[probe.prev[v][1]] + 1
                       /\ \E i \in DOMAIN topo.links :
                             topo.links[i] = Link(probe.prev[v][1], v, probe.prev[v][2])

C13_Witness ==
    /\ IsSptResult
    /\ \E v \in Range(topo.sws) : probe.dist[v] = 2 /\ probe.prev[v] # NoPred
    /\ \E i \in DOMAIN topo.links : topo.links[i].dst = probe.rule.ttp_dpid

(* the ports of switch a on which a link coming from switch b arrives *)
PortsFacing(t, a, b) ==
    {t.links[i].port : i \in {j \in DOMAIN t.links :
                                 t.links[j].src = b /\ t.links[j].dst = a}}

(* C16 as stated: predecessor[v] = (u, port) with u the next hop of v      *)
(* towards the target and port a port of u, the one on which u is attached *)
(* to v (wherever the snapshot has the link v -> u that tells this port).  *)
C16_PredecessorPortOnU ==
    IsSptResult =>
        \A v \in Range(topo.sws) : probe.prev[v] # NoPred =>
            LET u == probe.prev[v][1]
            IN /\ probe.dist[u] + 1 = probe.dist[v]
               /\ PortsFacing(topo, u, v) # {}
                     => probe.prev[v][2] \in PortsFacing(topo, u, v)

(* C16 amended: predecessor[v] = (u, port) with u the next hop of v        *)
(* towards the target and port a port of v: the destination-side port of   *)
(* the first link u -> v of the snapshot, on which v is attached to u.     *)
C16_PredecessorPortOnV ==
    IsSptResult =>
        \A v \in Range(topo.sws) : probe.prev[v] # NoPred =>
            LET u == probe.prev[v][1]
                fromU == SelectSeq(topo.links, LAMBDA l : l.src = u /\ l.dst = v)
            IN /\ probe.dist[u] + 1 = probe.dist[v]
               /\ probe.dist[v] < Inf
               /\ fromU # <<>>
               /\ probe.prev[v][2] = fromU[1].port
               /\ probe.prev[v][2] \in PortsFacing(topo, v, u)

C16_Witness ==
    /\ IsSptResult
    /\ \E v \in Range(topo.sws) :
          /\ probe.prev[v] # NoPred
          /\ probe.dist[v] = 2
          /\ PortsFacing(topo, probe.prev[v][1], v) # {}
          /\ probe.prev[v][2] \notin PortsFacing(topo, probe.prev[v][1], v)

(* the snapshots with the switches and the links of t in other orders *)
Reorderings(t) ==
    {Snapshot(o, SortLinks(Range(t.links), up)) :
        o \in {x \in VertexOrders : Range(x) = Range(t.sws)}, up \in BOOLEAN}

(* C19: the distances and the predecessors computed for a snapshot and a   *)
(* target are the same for every enumeration order of the switches and of  *)
(* the links.                                                              *)
C19_OrderIndependent ==
    IsSptResult =>
        \A t \in Reorderings(topo) :
            LET spt == _compute_spanning_tree(t, probe.rule.ttp_dpid)
            IN spt.dist = probe.dist /\ spt.prev = probe.prev

(* every link has its reverse link *)
HasReverseLinks(t) ==
    \A i \in DOMAIN t.links : PortsFacing(t, t.links[i].src, t.links[i].dst) # {}

(* at most one link arrives on each port of each switch *)
OneLinkPerPort(t) ==
    \A i, j \in DOMAIN t.links :
        (t.links[i].dst = t.links[j].dst /\ t.links[i].port = t.links[j].port)
            => i = j

(* where a frame sent by switch v through port p arrives: the switch u at  *)
(* the other end of the link attached to p, on a port of u facing v        *)
Arrivals(t, v, p) ==
    UNION {{<<t.links[i].src, q>> : q \in PortsFacing(t, t.links[i].src, v)}
           : i \in {j \in DOMAIN t.links : t.links[j].dst = v /\ t.links[j].port = p}}

(* the output ports of the flow_mods on switch v matching ingress port p *)
OutputsOf(fms, v, p) ==
    {fms[i].port : i \in {j \in DOMAIN fms :
                             fms[j].dpid = v /\ fms[j].match.in_port = p}}

(* a frame entering v on port p is forwarded by the flow_mods fms alone,   *)
(* visits no switch of seen again, and leaves the target through its       *)
(* ttp_port after exactly n hops                                           *)
RECURSIVE Forwarded(_, _, _, _, _, _, _)
Forwarded(t, fms, rule, v, p, n, seen) ==
    /\ OutputsOf(fms, v, p) # {}
    /\ \A o \in OutputsOf(fms, v, p) :
          IF v = rule.ttp_dpid
          THEN n = 0 /\ o = rule.ttp_port
          ELSE /\ n > 0
               /\ Arrivals(t, v, o) # {}
               /\ \A a \in Arrivals(t, v, o) :
                     /\ a[1] \notin seen
                     /\ Forwarded(t, fms, rule, a[1], a[2], n - 1, seen \cup {a[1]})

(* the output port of switch v in the tree towards the target of rule *)
OutputPort(t, rule, v) ==
    IF v = rule.ttp_dpid THEN rule.ttp_port
    ELSE _compute_spanning_tree(t, rule.ttp_dpid).prev[v][2]

AllForwarded(t, rule, fms) ==
    \A v \in ReachFrom(t, {rule.ttp_dpid}) :
        \A p \in PortNos \ {OutputPort(t, rule, v)} :
            Forwarded(t, fms, rule, v, p, HopDist(t, rule.ttp_dpid, v), {v})

IsCompiled == probe.kind = "compile" /\ probe.err = "ok"

(* C17 as stated: in a snapshot where every link has its reverse and every *)
(* port has at most one link, a matching frame entering a reachable switch *)
(* v on a port other than v's output port and the controller port is       *)
(* forwarded by the compiled rules alone along distance[v] hops, visiting  *)
(* no switch twice, and leaves the target through ttp_port.                *)
C17_FramesReachTarget ==
    (IsCompiled /\ HasReverseLinks(topo) /\ OneLinkPerPort(topo))
        => AllForwarded(topo, probe.rule, probe.flow_mods)

(* C17 amended: the same, for an intent whose ttp_port is not a port of    *)
(* the target on which a link of the snapshot arrives.                     *)
C17_FramesReachFreeTargetPort ==
    (/\ IsCompiled /\ HasReverseLinks(topo) /\ OneLinkPerPort(topo)
     /\ \A i \in DOMAIN topo.links :
           ~(topo.links[i].dst = probe.rule.ttp_dpid
             /\ topo.links[i].port = probe.rule.ttp_port))
        => AllForwarded(topo, probe.rule, probe.flow_mods)

C17_Witness ==
    /\ IsCompiled /\ HasReverseLinks(topo) /\ OneLinkPerPort(topo)
    /\ \A i \in DOMAIN topo.links :
          ~(topo.links[i].dst = probe.rule.ttp_dpid
            /\ topo.links[i].port = probe.rule.ttp_port)
    /\ \E v \in Range(topo.sws) : HopDist(topo, probe.rule.ttp_dpid, v) = 2
    /\ \E i \in DOMAIN probe.flow_mods :
          HopDist(topo, probe.rule.ttp_dpid, probe.flow_mods[i].dpid) = 2

(* the table entries the flow_mods of the stored intent uuid stand for *)
EntriesOf(rs, uuid) == {rs[uuid].flow_mods[i] : i \in DOMAIN rs[uuid].flow_mods}

(* C15: in every state, each stored intent has all of its flow_mods in the *)
(* switch tables or none of them.                                          *)
C15_InstalledFullyOrNotAtAll ==
    \A uuid \in DOMAIN rules :
        \/ EntriesOf(rules, uuid) \subseteq tables
        \/ EntriesOf(rules, uuid) \cap tables = {}

(* C18: every priority-200 entry of a switch table is a flow_mod of an     *)
(* intent stored in the registry.                                          *)
C18_NoOrphanIntentRule ==
    \A e \in tables : e.priority = 200 =>
        \E uuid \in DOMAIN rules : e \in EntriesOf(rules, uuid)

(* C20: update(uuid, newIntent) with uuid stored and the target of         *)
(* newIntent absent from the snapshot sends the strict deletes of the      *)
(* stored intent and no install, erases uuid, fails with InvalidTarget,    *)
(* stores nothing for newIntent and leaves the other intents as they were. *)
C20_UpdateNotAtomic ==
    [][(IsUpdateStep /\ last'.uuid \in DOMAIN rules
            /\ last'.rule.ttp_dpid \notin Range(topo.sws))
        => /\ err' = "InvalidTarget"
           /\ Len(out') = Len(rules[last'.uuid].flow_mods)
           /\ \A i \in DOMAIN out' :
                 /\ out'[i].cmd = "DELETE_STRICT"
                 /\ out'[i].dpid = rules[last'.uuid].flow_mods[i].dpid
                 /\ out'[i].match = rules[last'.uuid].flow_mods[i].match
                 /\ out'[i].priority = 200
           /\ DOMAIN rules' = DOMAIN rules \ {last'.uuid}
           /\ \A u \in DOMAIN rules' : rules'[u] = rules[u]
           /\ last'.flow_mods = <<>>
           /\ tables' \subseteq tables
           /\ EntriesOf(rules, last'.uuid) \cap tables' = {}]_vars

C20_Witness ==
    /\ last.op = "update"
    /\ err = "InvalidTarget"
    /\ Len(out) >= 2
    /\ last.uuid \notin DOMAIN rules
    /\ last.rule.uuid \in DOMAIN rules
    /\ tables # {}

====
